---- MODULE Spec2Model ----
(***************************************************************************)
(* Two-pass ingestion pipeline of first-python-rag: main_ingest.py         *)
(* (IngestionPipeline), embedding/enricher.py (CodeEnricher.enrich_batch)  *)
(* and database/vector_store.py (VectorStore.add_batch); the hierarchy     *)
(* scanner parser/hierarchy_scanner.py (HierarchyScanner) and the          *)
(* structural parser parser/java_parser.py (JavaCodeParser).               *)
(***************************************************************************)
EXTENDS Integers, Sequences, FiniteSets, TLC

\* ---------------------------------------------------------------- bounds
MaxFiles == 2
MaxChunksPerFile == 3
MaxBatchSize == 2
MaxDirectBatch == 4
MaxDirectConcurrent == 2
MaxParseFailures == 1      \* files whose parse raises, per run
MaxEnrichFailures == 1     \* chunks whose enrichment raises, per run
MaxStorageFailures == 1    \* add_batch calls that end with an exception, per run
MaxScanFiles == 2          \* *.java files under the scanned root
MaxParams == 2             \* children of a formal_parameters node
MaxBodyLines == 2          \* lines between the braces of a method body
MaxRecursionDepth == 4     \* frames of _get_inherited_methods the interpreter allows

\* ------------------------------------------------------ program constants
DefaultMaxConcurrent == 5
max_retries == 3
WriteMultiple == 5
BackoffUnit == 2

None == "None"

VARIABLES
  pc,                  \* position of the control flow (main / run / phase2_ingestion_loop)
  ctx,                 \* where flush/write was called from: "loop" or "final"
  rootExists,          \* Path(root).exists()
  treeFiles,           \* number of *.java files under the root
  batch_size,          \* IngestionPipeline.batch_size
  hierarchy_file,      \* project_hierarchy.json has been written
  scan_read,           \* number of files the hierarchy scan has read
  raised,              \* exception that left run(), or None
  parser, enricher, vector_store,   \* components (None until constructed)
  java_files,          \* len(java_files) found by find_java_files
  file_idx,            \* 1-based position of the for loop over java_files
  stats,               \* self.stats
  buffer,              \* parse buffer
  all_enriched_chunks, \* accumulation buffer
  error_log,           \* lines appended to the error log
  visited,             \* per iterated file: "ok" or "failed" (history)
  parsed,              \* every chunk returned by parse_file (history)
  epc,                 \* enrich_batch: "idle","called","gather","returned","raised"
  tasks,               \* chunks handed to enrich_batch (one task each)
  task_state,          \* per task: "pending","running","done","failed","cancelled"
  max_concurrent,      \* CodeEnricher.max_concurrent
  semaphore,           \* value of the asyncio.Semaphore
  enrich_result,       \* list returned by enrich_batch
  overtaken,           \* a call of this batch finished before one of a chunk listed earlier
  enriched_ok,         \* every chunk ever returned by enrich_batch (history)
  enrich_failures,     \* chunks whose enrichment task raised (history)
  table,               \* VectorStore.table: None or "open"
  table_exists,        \* the table exists in the database directory
  mode,                \* add_batch branch: "create" or "add"
  write_batch,         \* argument of the add_batch call in progress
  attempt_log,         \* outcomes of the write attempts of the current/last call
  delays,              \* time.sleep arguments of the current/last call
  add_batch_calls,     \* every list passed to add_batch, with its outcome (history)
  store,               \* records persisted in the table
  report,              \* the final reports emitted (at most one)
  scan_pc,             \* build_project_map: "idle","loop","returned","raised"
  scan_java_files,     \* list(root_path.rglob("*.java")), in visit order
  scan_i,              \* 1-based position of the scan loop
  hierarchy_map,       \* the dict built by build_project_map
  hierarchy_json,      \* content of project_hierarchy.json (<< >> while absent)
  parser_hierarchy_map,\* JavaCodeParser.hierarchy_map
  project_chunks,      \* parse_file results of the files of the scanned tree
  previous_run,        \* map and chunks of the run before this one (<< >> in the first)
  parse_pc,            \* parse_file: "idle","returned","raised"
  source_file,         \* the file handed to parse_file
  results,             \* list returned by parse_file
  resolve_pc,          \* _get_inherited_methods: "idle","frame","returned","RecursionError"
  resolve_parent,      \* parent_class argument of the innermost frame
  resolve_depth,       \* number of frames on the stack
  resolve_methods      \* names collected by the frames so far

vars == << pc, ctx, rootExists, treeFiles, batch_size, hierarchy_file, scan_read,
           raised, parser, enricher, vector_store, java_files, file_idx, stats,
           buffer, all_enriched_chunks, error_log, visited, parsed, epc, tasks,
           task_state, max_concurrent, semaphore, enrich_result, overtaken, enriched_ok,
           enrich_failures, table, table_exists, mode, write_batch, attempt_log, delays,
           add_batch_calls, store, report,
           scan_pc, scan_java_files, scan_i, hierarchy_map, hierarchy_json,
           parser_hierarchy_map, project_chunks, previous_run,
           parse_pc, source_file, results,
           resolve_pc, resolve_parent, resolve_depth, resolve_methods >>

\* state of the scanner and of the structural parser
scanVars == << scan_pc, scan_java_files, scan_i, hierarchy_map, hierarchy_json,
               parser_hierarchy_map, project_chunks, previous_run >>
parseVars == << parse_pc, source_file, results >>
resolveVars == << resolve_pc, resolve_parent, resolve_depth, resolve_methods >>
indexVars == << scanVars, parseVars, resolveVars >>

pipeVars == << ctx, rootExists, treeFiles, batch_size, hierarchy_file, scan_read,
               raised, parser, enricher, vector_store, java_files, file_idx, stats,
               buffer, all_enriched_chunks, error_log, visited, parsed >>
storeVars == << table, table_exists, mode, write_batch, attempt_log, delays,
                add_batch_calls, store >>
taskVars == << tasks, task_state, semaphore, enrich_result, overtaken >>
\* state of the ingestion pipeline, the enricher and the store
ingestVars == << pc, pipeVars, storeVars, taskVars, epc, max_concurrent, enriched_ok,
                 enrich_failures, report >>

\* ------------------------------------------------------------- helpers
Chunk(f, k) == [file_path |-> f, k |-> k]
ChunksOf(f, n) == [k \in 1..n |-> Chunk(f, k)]

Range(s) == { s[i] : i \in 1..Len(s) }

\* log_error: one line per call, naming the file and the error
\* (kind: "parse", "enrich", or the storage errors "lock" and "other")
LogLine(f, kind) == [file |-> f, kind |-> kind]
StorageErrors == {"lock", "other"}
LogEach(chunks, kind) == [i \in 1..Len(chunks) |-> LogLine(chunks[i].file_path, kind)]

\* failures injected so far (read off the histories)
EnrichLost ==
  Cardinality(enrich_failures)
    + Cardinality({ i \in 1..Len(error_log) : error_log[i].kind = "enrich" })
StorageFailures ==
  Cardinality({ i \in 1..Len(add_batch_calls) : add_batch_calls[i].outcome = "raised" })

InitStats == [files_processed |-> 0, files_failed |-> 0, chunks_indexed |-> 0, total_files |-> 0]

\* extract_metadata: the stored record keeps the chunk's identity and the
\* file_path ARGUMENT of add_batch ('unknown' when it is not given)
extract_metadata(chunk, file_path) ==
  [chunk |-> chunk, file_path |-> IF file_path = None THEN "unknown" ELSE file_path]

\* records built by add_batch(enriched_chunks, file_path)
Records(enriched_chunks, file_path) ==
  [i \in 1..Len(enriched_chunks) |-> extract_metadata(enriched_chunks[i], file_path)]

\* --------------------------------------------------------------- Init
InitCommon ==
  /\ ctx = "loop"
  /\ hierarchy_file = FALSE
  /\ scan_read = 0
  /\ raised = None
  /\ parser = None /\ enricher = None /\ vector_store = None
  /\ java_files = 0
  /\ file_idx = 0
  /\ stats = InitStats
  /\ buffer = << >>
  /\ all_enriched_chunks = << >>
  /\ error_log = << >>
  /\ visited = << >>
  /\ parsed = << >>
  /\ epc = "idle"
  /\ tasks = << >>
  /\ task_state = << >>
  /\ max_concurrent = 0
  /\ semaphore = 0
  /\ enrich_result = << >>
  /\ overtaken = FALSE
  /\ enriched_ok = << >>
  /\ enrich_failures = {}
  /\ table = None
  /\ mode = None
  /\ write_batch = << >>
  /\ attempt_log = << >>
  /\ delays = << >>
  /\ add_batch_calls = << >>
  /\ store = << >>
  /\ report = << >>

\* no scanner or parser call of its own is in progress
ScanIdle ==
  /\ scan_pc = "idle"
  /\ scan_java_files = << >>
  /\ scan_i = 0
  /\ hierarchy_map = << >>
  /\ hierarchy_json = << >>
  /\ parser_hierarchy_map = << >>
  /\ project_chunks = << >>
  /\ previous_run = << >>

ParseIdle ==
  /\ parse_pc = "idle"
  /\ source_file = << >>
  /\ results = << >>

ResolveIdle ==
  /\ resolve_pc = "idle"
  /\ resolve_parent = << >>
  /\ resolve_depth = 0
  /\ resolve_methods = << >>

Init ==
  /\ pc = "main"
  /\ rootExists \in BOOLEAN
  /\ treeFiles \in 0..MaxFiles
  /\ (~rootExists => treeFiles = 0)
  /\ batch_size \in 1..MaxBatchSize
  /\ table_exists \in BOOLEAN
  /\ InitCommon
  /\ ScanIdle /\ ParseIdle /\ ResolveIdle

\* ------------------------------------------------------ main() and run()
\* main(): validates the project root, then builds the pipeline and runs it
Main ==
  /\ pc = "main"
  /\ pc' = IF rootExists THEN "run" ELSE "main_returned"
  /\ UNCHANGED << pipeVars, storeVars, taskVars, epc, max_concurrent, enriched_ok, enrich_failures, report >>
  /\ UNCHANGED indexVars

\* test_pipeline(): builds the pipeline and awaits run() without any check
test_pipeline ==
  /\ pc = "main"
  /\ pc' = "run"
  /\ UNCHANGED << pipeVars, storeVars, taskVars, epc, max_concurrent, enriched_ok, enrich_failures, report >>
  /\ UNCHANGED indexVars

\* variant: the scan returns the map without writing the hierarchy file
phase1_hierarchy_scan_nofile ==
  /\ pc = "run"
  /\ IF ~rootExists
       THEN /\ raised' = "FileNotFoundError"
            /\ pc' = "raised"
            /\ UNCHANGED << hierarchy_file, scan_read >>
       ELSE /\ scan_read' = treeFiles
            /\ pc' = "init_components"
            /\ UNCHANGED << raised, hierarchy_file >>
  /\ UNCHANGED << ctx, rootExists, treeFiles, batch_size, parser, enricher, vector_store,
                  java_files, file_idx, stats, buffer, all_enriched_chunks, error_log,
                  visited, parsed, storeVars, taskVars, epc, max_concurrent,
                  enriched_ok, enrich_failures, report >>
  /\ UNCHANGED indexVars

\* variant: the scan does not check that the root exists
phase1_hierarchy_scan_unchecked ==
  /\ pc = "run"
  /\ scan_read' = treeFiles
  /\ hierarchy_file' = TRUE
  /\ pc' = "init_components"
  /\ UNCHANGED raised
  /\ UNCHANGED << ctx, rootExists, treeFiles, batch_size, parser, enricher, vector_store,
                  java_files, file_idx, stats, buffer, all_enriched_chunks, error_log,
                  visited, parsed, storeVars, taskVars, epc, max_concurrent,
                  enriched_ok, enrich_failures, report >>
  /\ UNCHANGED indexVars

\* phase1_hierarchy_scan -> build_project_map: raises FileNotFoundError on a
\* missing root before rglob; otherwise reads every file and writes the map
phase1_hierarchy_scan ==
  /\ pc = "run"
  /\ IF ~rootExists
       THEN /\ raised' = "FileNotFoundError"
            /\ pc' = "raised"
            /\ UNCHANGED << hierarchy_file, scan_read >>
       ELSE /\ scan_read' = treeFiles
            /\ hierarchy_file' = TRUE
            /\ pc' = "init_components"
            /\ UNCHANGED raised
  /\ UNCHANGED << ctx, rootExists, treeFiles, batch_size, parser, enricher, vector_store,
                  java_files, file_idx, stats, buffer, all_enriched_chunks, error_log,
                  visited, parsed, storeVars, taskVars, epc, max_concurrent,
                  enriched_ok, enrich_failures, report >>
  /\ UNCHANGED indexVars

\* initialize_components: parser (loads the hierarchy file), enricher, store
initialize_components ==
  /\ pc = "init_components"
  /\ parser' = "JavaCodeParser"
  /\ enricher' = "CodeEnricher"
  /\ max_concurrent' = DefaultMaxConcurrent
  /\ vector_store' = "VectorStore"
  /\ table' = None
  /\ pc' = "find_files"
  /\ UNCHANGED << ctx, rootExists, treeFiles, batch_size, hierarchy_file, scan_read, raised,
                  java_files, file_idx, stats, buffer, all_enriched_chunks, error_log,
                  visited, parsed, table_exists, mode, write_batch, attempt_log, delays,
                  add_batch_calls, store, taskVars, epc, enriched_ok, enrich_failures, report >>
  /\ UNCHANGED indexVars

find_java_files ==
  /\ pc = "find_files"
  /\ java_files' = treeFiles
  /\ pc' = "phase2"
  /\ UNCHANGED << ctx, rootExists, treeFiles, batch_size, hierarchy_file, scan_read, raised,
                  parser, enricher, vector_store, file_idx, stats, buffer,
                  all_enriched_chunks, error_log, visited, parsed, storeVars, taskVars,
                  epc, max_concurrent, enriched_ok, enrich_failures, report >>
  /\ UNCHANGED indexVars

\* phase2_ingestion_loop, up to the first iteration
phase2_start ==
  /\ pc = "phase2"
  /\ buffer' = << >>
  /\ all_enriched_chunks' = << >>
  /\ stats' = [stats EXCEPT !.total_files = java_files]
  /\ file_idx' = 1
  /\ ctx' = "loop"
  /\ pc' = "loop"
  /\ UNCHANGED << rootExists, treeFiles, batch_size, hierarchy_file, scan_read, raised,
                  parser, enricher, vector_store, java_files, error_log, visited, parsed,
                  storeVars, taskVars, epc, max_concurrent, enriched_ok, enrich_failures, report >>
  /\ UNCHANGED indexVars

\* --------------------------------------------- phase2_ingestion_loop body
\* variant: the accumulation buffer is not cleared after a mid-run write
AfterWrite_keep ==
  IF ctx = "loop"
    THEN /\ file_idx' = file_idx + 1
         /\ pc' = "loop"
         /\ UNCHANGED all_enriched_chunks
    ELSE /\ pc' = "report"
         /\ UNCHANGED << all_enriched_chunks, file_idx >>

\* what follows a write in _write_to_db_sequential's caller
AfterWrite ==
  IF ctx = "loop"
    THEN /\ all_enriched_chunks' = << >>
         /\ file_idx' = file_idx + 1
         /\ pc' = "loop"
    ELSE /\ pc' = "report"
         /\ UNCHANGED << all_enriched_chunks, file_idx >>

\* variant: the parse buffer is not emptied after a flush
AfterFlush_keepbuffer(enriched) ==
  LET acc == all_enriched_chunks \o enriched IN
  IF ctx = "loop"
    THEN /\ buffer' = buffer
         /\ all_enriched_chunks' = acc
         /\ IF Len(acc) >= batch_size * WriteMultiple
              THEN /\ pc' = "add_batch"
                   /\ write_batch' = acc
                   /\ UNCHANGED file_idx
              ELSE /\ pc' = "loop"
                   /\ file_idx' = file_idx + 1
                   /\ UNCHANGED write_batch
    ELSE /\ all_enriched_chunks' = acc
         /\ pc' = "final_write"
         /\ UNCHANGED << buffer, file_idx, write_batch >>

\* variant: the accumulation buffer is only written after the loop
AfterFlush_nowrite(enriched) ==
  LET acc == all_enriched_chunks \o enriched IN
  IF ctx = "loop"
    THEN /\ buffer' = << >>
         /\ all_enriched_chunks' = acc
         /\ pc' = "loop"
         /\ file_idx' = file_idx + 1
         /\ UNCHANGED write_batch
    ELSE /\ all_enriched_chunks' = acc
         /\ pc' = "final_write"
         /\ UNCHANGED << buffer, file_idx, write_batch >>

\* what follows `enriched = await self.flush_buffer(buffer)`
AfterFlush(enriched) ==
  LET acc == all_enriched_chunks \o enriched IN
  IF ctx = "loop"
    THEN /\ buffer' = << >>
         /\ all_enriched_chunks' = acc
         /\ IF Len(acc) >= batch_size * WriteMultiple
              THEN /\ pc' = "add_batch"      \* _write_to_db_sequential(acc), acc not empty
                   /\ write_batch' = acc
                   /\ UNCHANGED file_idx
              ELSE /\ pc' = "loop"
                   /\ file_idx' = file_idx + 1
                   /\ UNCHANGED write_batch
    ELSE /\ all_enriched_chunks' = acc
         /\ pc' = "final_write"
         /\ UNCHANGED << buffer, file_idx, write_batch >>

\* variant: a parse failure ends the loop
ParseRaise_break ==
  /\ pc = "loop"
  /\ file_idx <= java_files
  /\ stats.files_failed < MaxParseFailures
  /\ error_log' = Append(error_log, LogLine(file_idx, "parse"))
  /\ stats' = [stats EXCEPT !.files_failed = @ + 1]
  /\ visited' = Append(visited, "failed")
  /\ file_idx' = java_files + 1
  /\ UNCHANGED << pc, ctx, rootExists, treeFiles, batch_size, hierarchy_file, scan_read,
                  raised, parser, enricher, vector_store, java_files, buffer,
                  all_enriched_chunks, parsed, storeVars, taskVars, epc, max_concurrent,
                  enriched_ok, enrich_failures, report >>
  /\ UNCHANGED indexVars

\* one iteration whose parse_file raises: log_error, files_failed += 1
ParseRaise ==
  /\ pc = "loop"
  /\ file_idx <= java_files
  /\ stats.files_failed < MaxParseFailures
  /\ error_log' = Append(error_log, LogLine(file_idx, "parse"))
  /\ stats' = [stats EXCEPT !.files_failed = @ + 1]
  /\ visited' = Append(visited, "failed")
  /\ file_idx' = file_idx + 1
  /\ UNCHANGED << pc, ctx, rootExists, treeFiles, batch_size, hierarchy_file, scan_read,
                  raised, parser, enricher, vector_store, java_files, buffer,
                  all_enriched_chunks, parsed, storeVars, taskVars, epc, max_concurrent,
                  enriched_ok, enrich_failures, report >>
  /\ UNCHANGED indexVars

\* one iteration whose parse_file returns n chunks: tag, buffer, count, and
\* flush when the buffer holds at least batch_size chunks
ParseOk(n) ==
  /\ pc = "loop"
  /\ file_idx <= java_files
  /\ LET chunks == ChunksOf(file_idx, n)
         buf == buffer \o chunks
     IN /\ parsed' = parsed \o chunks
        /\ buffer' = buf
        /\ stats' = [stats EXCEPT !.files_processed = @ + 1]
        /\ visited' = Append(visited, "ok")
        /\ IF Len(buf) >= batch_size
             THEN /\ pc' = "await_enrich"       \* flush_buffer -> enrich_batch(buf)
                  /\ epc' = "called"
                  /\ tasks' = buf
                  /\ UNCHANGED file_idx
             ELSE /\ pc' = "loop"
                  /\ file_idx' = file_idx + 1
                  /\ UNCHANGED << epc, tasks >>
  /\ UNCHANGED << ctx, rootExists, treeFiles, batch_size, hierarchy_file, scan_read,
                  raised, parser, enricher, vector_store, java_files,
                  all_enriched_chunks, error_log, storeVars, task_state, semaphore,
                  enrich_result, overtaken, max_concurrent, enriched_ok, enrich_failures, report >>
  /\ UNCHANGED indexVars

\* the for loop is exhausted
LoopExit ==
  /\ pc = "loop"
  /\ file_idx > java_files
  /\ ctx' = "final"
  /\ pc' = "final_flush"
  /\ UNCHANGED << rootExists, treeFiles, batch_size, hierarchy_file, scan_read, raised,
                  parser, enricher, vector_store, java_files, file_idx, stats, buffer,
                  all_enriched_chunks, error_log, visited, parsed, storeVars, taskVars,
                  epc, max_concurrent, enriched_ok, enrich_failures, report >>
  /\ UNCHANGED indexVars

\* variant: the remainder of the parse buffer is not flushed
FinalFlush_skip ==
  /\ pc = "final_flush"
  /\ pc' = "final_write"
  /\ UNCHANGED << pipeVars, storeVars, taskVars, epc, max_concurrent, enriched_ok,
                  enrich_failures, report >>
  /\ UNCHANGED indexVars

\* `if buffer:` flush the remainder
FinalFlush ==
  /\ pc = "final_flush"
  /\ IF buffer # << >>
       THEN /\ pc' = "await_enrich"
            /\ epc' = "called"
            /\ tasks' = buffer
       ELSE /\ pc' = "final_write"
            /\ UNCHANGED << epc, tasks >>
  /\ UNCHANGED << pipeVars, storeVars, task_state, semaphore, enrich_result, overtaken,
                  max_concurrent, enriched_ok, enrich_failures, report >>
  /\ UNCHANGED indexVars

\* `if all_enriched_chunks:` final sequential write
FinalWrite ==
  /\ pc = "final_write"
  /\ IF all_enriched_chunks # << >>
       THEN /\ pc' = "add_batch"
            /\ write_batch' = all_enriched_chunks
       ELSE /\ pc' = "report"
            /\ UNCHANGED write_batch
  /\ UNCHANGED << pipeVars, table, table_exists, mode, attempt_log, delays,
                  add_batch_calls, store, taskVars, epc, max_concurrent, enriched_ok, enrich_failures,
                  report >>
  /\ UNCHANGED indexVars

\* flush_buffer: enrich_batch returned
FlushBufferReturn ==
  /\ pc = "await_enrich"
  /\ epc = "returned"
  /\ epc' = "idle"
  /\ overtaken' = FALSE
  /\ AfterFlush(enrich_result)
  /\ UNCHANGED << ctx, rootExists, treeFiles, batch_size, hierarchy_file, scan_read,
                  raised, parser, enricher, vector_store, java_files, stats, error_log,
                  visited, parsed, table, table_exists, mode, attempt_log, delays,
                  add_batch_calls, store, tasks, task_state, semaphore, enrich_result, max_concurrent, enriched_ok, enrich_failures, report >>
  /\ UNCHANGED indexVars

\* variant: a failed enrichment call counts the current file as failed
FlushBufferExcept_counted ==
  /\ pc = "await_enrich"
  /\ epc = "called"
  /\ EnrichLost + Len(tasks) <= MaxEnrichFailures
  /\ epc' = "idle"
  /\ error_log' = error_log \o LogEach(tasks, "enrich")
  /\ stats' = [stats EXCEPT !.files_failed = @ + 1]
  /\ AfterFlush(<< >>)
  /\ UNCHANGED << ctx, rootExists, treeFiles, batch_size, hierarchy_file, scan_read,
                  raised, parser, enricher, vector_store, java_files,
                  visited, parsed, table, table_exists, mode, attempt_log, delays,
                  add_batch_calls, store, taskVars, max_concurrent, enriched_ok, enrich_failures, report >>
  /\ UNCHANGED indexVars

\* flush_buffer: the awaited call raised; one log line per buffered chunk, []
FlushBufferExcept ==
  /\ pc = "await_enrich"
  /\ epc = "called"
  /\ EnrichLost + Len(tasks) <= MaxEnrichFailures
  /\ epc' = "idle"
  /\ error_log' = error_log \o LogEach(tasks, "enrich")
  /\ AfterFlush(<< >>)
  /\ UNCHANGED << ctx, rootExists, treeFiles, batch_size, hierarchy_file, scan_read,
                  raised, parser, enricher, vector_store, java_files, stats,
                  visited, parsed, table, table_exists, mode, attempt_log, delays,
                  add_batch_calls, store, taskVars, max_concurrent, enriched_ok, enrich_failures, report >>
  /\ UNCHANGED indexVars

\* ------------------------------------------- CodeEnricher.enrich_batch
InFlight == Cardinality({ i \in 1..Len(task_state) : task_state[i] = "running" })
Finished(i) == task_state[i] \in {"done", "failed", "cancelled"}

\* variant: the results are collected from the last task to the first
Successful_lastfirst ==
  LET idx == SelectSeq([i \in 1..Len(tasks) |-> i], LAMBDA i : task_state[i] = "done")
  IN [j \in 1..Len(idx) |-> tasks[idx[Len(idx) + 1 - j]]]

\* the results of gather that are not exceptions, in task order
Successful ==
  LET idx == SelectSeq([i \in 1..Len(tasks) |-> i], LAMBDA i : task_state[i] = "done")
  IN [j \in 1..Len(idx) |-> tasks[idx[j]]]

\* semaphore = asyncio.Semaphore(max_concurrent); one task per chunk
EnrichBatchStart ==
  /\ epc = "called"
  /\ semaphore' = max_concurrent
  /\ task_state' = [i \in 1..Len(tasks) |-> "pending"]
  /\ enrich_result' = << >>
  /\ overtaken' = FALSE
  /\ epc' = "gather"
  /\ UNCHANGED << pc, pipeVars, storeVars, tasks, max_concurrent, enriched_ok, enrich_failures, report >>
  /\ UNCHANGED indexVars

\* variant: a task starts its call without waiting for the semaphore
TaskAdmit_ungated(k) ==
  /\ epc = "gather"
  /\ k \in 1..Len(tasks)
  /\ task_state[k] = "pending"
  /\ \A j \in 1..(k - 1) : task_state[j] # "pending"
  /\ semaphore' = semaphore - 1
  /\ task_state' = [task_state EXCEPT ![k] = "running"]
  /\ UNCHANGED << pc, pipeVars, storeVars, tasks, enrich_result, overtaken, epc, max_concurrent,
                  enriched_ok, enrich_failures, report >>
  /\ UNCHANGED indexVars

\* _enrich_single_chunk: `async with semaphore` admits the longest waiting task
TaskAdmit(k) ==
  /\ epc = "gather"
  /\ k \in 1..Len(tasks)
  /\ task_state[k] = "pending"
  /\ \A j \in 1..(k - 1) : task_state[j] # "pending"
  /\ semaphore > 0
  /\ semaphore' = semaphore - 1
  /\ task_state' = [task_state EXCEPT ![k] = "running"]
  /\ UNCHANGED << pc, pipeVars, storeVars, tasks, enrich_result, overtaken, epc, max_concurrent,
                  enriched_ok, enrich_failures, report >>
  /\ UNCHANGED indexVars

\* the enrichment call returns the chunk; the semaphore is released
TaskReturn(k) ==
  /\ epc = "gather"
  /\ k \in 1..Len(tasks)
  /\ task_state[k] = "running"
  /\ overtaken' = (overtaken \/ \E j \in 1..(k - 1) : ~Finished(j))
  /\ semaphore' = semaphore + 1
  /\ task_state' = [task_state EXCEPT ![k] = "done"]
  /\ UNCHANGED << pc, pipeVars, storeVars, tasks, enrich_result, epc, max_concurrent,
                  enriched_ok, enrich_failures, report >>
  /\ UNCHANGED indexVars

\* variant: a failing task cancels the siblings that have not finished
TaskRaise_cancel(k) ==
  /\ epc = "gather"
  /\ k \in 1..Len(tasks)
  /\ task_state[k] = "running"
  /\ overtaken' = (overtaken \/ \E j \in 1..(k - 1) : ~Finished(j))
  /\ EnrichLost < MaxEnrichFailures
  /\ semaphore' = max_concurrent
  /\ task_state' = [i \in 1..Len(task_state) |->
                       IF i = k THEN "failed"
                       ELSE IF task_state[i] \in {"pending", "running"} THEN "cancelled"
                       ELSE task_state[i]]
  /\ enrich_failures' = enrich_failures \cup {tasks[k]}
  /\ UNCHANGED << pc, pipeVars, storeVars, tasks, enrich_result, epc, max_concurrent,
                  enriched_ok, report >>
  /\ UNCHANGED indexVars

\* the enrichment call raises; the semaphore is released, siblings go on
TaskRaise(k) ==
  /\ epc = "gather"
  /\ k \in 1..Len(tasks)
  /\ task_state[k] = "running"
  /\ overtaken' = (overtaken \/ \E j \in 1..(k - 1) : ~Finished(j))
  /\ EnrichLost < MaxEnrichFailures
  /\ semaphore' = semaphore + 1
  /\ task_state' = [task_state EXCEPT ![k] = "failed"]
  /\ enrich_failures' = enrich_failures \cup {tasks[k]}
  /\ UNCHANGED << pc, pipeVars, storeVars, tasks, enrich_result, epc, max_concurrent,
                  enriched_ok, report >>
  /\ UNCHANGED indexVars

\* variant: the await returns as soon as one task has finished
GatherComplete_first == \E i \in 1..Len(tasks) : Finished(i)

\* gather(return_exceptions=True) completes when every task has finished
GatherComplete == \A i \in 1..Len(tasks) : Finished(i)

\* enrich_batch after gather: keep the results that are not exceptions
EnrichBatchReturn ==
  /\ epc = "gather"
  /\ GatherComplete
  /\ enrich_result' = Successful
  /\ enriched_ok' = enriched_ok \o Successful
  /\ epc' = "returned"
  /\ UNCHANGED << pc, pipeVars, storeVars, tasks, task_state, semaphore, overtaken, max_concurrent,
                  enrich_failures, report >>
  /\ UNCHANGED indexVars

\* ------------------------------------------------ VectorStore.add_batch
\* variant: every error is retried
ShouldRetry_any(attempt, e) == attempt < max_retries - 1

ShouldRetry(attempt, e) == attempt < max_retries - 1 /\ e = "lock"
wait_time(attempt) == (attempt + 1) * BackoffUnit

\* add_batch up to the first write attempt: build the records, open the table
AddBatchBegin ==
  /\ pc = "add_batch"
  /\ add_batch_calls' = Append(add_batch_calls, [chunks |-> write_batch, outcome |-> "running"])
  /\ attempt_log' = << >>
  /\ delays' = << >>
  /\ IF table = None
       THEN IF table_exists
              THEN table' = "open" /\ mode' = "add"
              ELSE mode' = "create" /\ UNCHANGED table
       ELSE mode' = "add" /\ UNCHANGED table
  /\ pc' = "write_try"
  /\ UNCHANGED << pipeVars, table_exists, write_batch, store, taskVars, epc,
                  max_concurrent, enriched_ok, enrich_failures, report >>
  /\ UNCHANGED indexVars

SetOutcome(o) ==
  [add_batch_calls EXCEPT ![Len(add_batch_calls)].outcome = o]

\* create_table / table.add succeeds; chunks_indexed += len(enriched_chunks)
WriteSucceeds ==
  /\ pc = "write_try"
  /\ attempt_log' = << >> /\ delays' = << >> /\ mode' = None /\ write_batch' = << >>
  /\ store' = store \o Records(write_batch, None)
  /\ table' = "open"
  /\ table_exists' = TRUE
  /\ add_batch_calls' = SetOutcome("ok")
  /\ stats' = [stats EXCEPT !.chunks_indexed = @ + Len(write_batch)]
  /\ AfterWrite
  /\ UNCHANGED << ctx, rootExists, treeFiles, batch_size, hierarchy_file, scan_read,
                  raised, parser, enricher, vector_store, java_files, buffer, error_log,
                  visited, parsed, taskVars, epc,
                  max_concurrent, enriched_ok, enrich_failures, report >>
  /\ UNCHANGED indexVars

\* the attempt fails with an error that is retried after time.sleep
WriteRetry(e) ==
  /\ pc = "write_try"
  /\ e \in StorageErrors
  /\ ShouldRetry(Len(attempt_log), e)
  /\ attempt_log' = Append(attempt_log, e)
  /\ delays' = Append(delays, wait_time(Len(attempt_log)))
  /\ UNCHANGED << pc, pipeVars, table, table_exists, mode, write_batch, add_batch_calls,
                  store, taskVars, epc, max_concurrent, enriched_ok, enrich_failures, report >>
  /\ UNCHANGED indexVars

\* variant: _write_to_db_sequential does not catch the exception
WriteRaises_uncaught(e) ==
  /\ pc = "write_try"
  /\ e \in StorageErrors
  /\ ~ShouldRetry(Len(attempt_log), e)
  /\ StorageFailures < MaxStorageFailures
  /\ attempt_log' = << >> /\ delays' = << >> /\ mode' = None /\ write_batch' = << >>
  /\ add_batch_calls' = SetOutcome("raised")
  /\ raised' = "StorageFailure"
  /\ pc' = "raised"
  /\ UNCHANGED << ctx, rootExists, treeFiles, batch_size, hierarchy_file, scan_read,
                  parser, enricher, vector_store, java_files, file_idx, stats, buffer,
                  all_enriched_chunks, error_log, visited, parsed, table, table_exists,
                  store, taskVars, epc, max_concurrent, enriched_ok, enrich_failures,
                  report >>
  /\ UNCHANGED indexVars

\* the attempt fails and the exception leaves add_batch;
\* _write_to_db_sequential logs one line per chunk
WriteRaises(e) ==
  /\ pc = "write_try"
  /\ e \in StorageErrors
  /\ ~ShouldRetry(Len(attempt_log), e)
  /\ StorageFailures < MaxStorageFailures
  /\ attempt_log' = << >> /\ delays' = << >> /\ mode' = None /\ write_batch' = << >>
  /\ add_batch_calls' = SetOutcome("raised")
  /\ error_log' = error_log \o LogEach(write_batch, e)
  /\ AfterWrite
  /\ UNCHANGED << ctx, rootExists, treeFiles, batch_size, hierarchy_file, scan_read,
                  raised, parser, enricher, vector_store, java_files, stats, buffer,
                  visited, parsed, table, table_exists, store,
                  taskVars, epc, max_concurrent, enriched_ok, enrich_failures, report >>
  /\ UNCHANGED indexVars

\* ---------------------------------------------------------- final report
Report ==
  /\ pc = "report"
  /\ report' = << [total_files |-> stats.total_files,
                files_processed |-> stats.files_processed,
                files_failed |-> stats.files_failed,
                chunks_indexed |-> stats.chunks_indexed,
                database_records |-> IF table = None THEN 0 ELSE Len(store),
                see_error_log |-> stats.files_failed > 0] >>
  /\ pc' = "done"
  /\ UNCHANGED << pipeVars, storeVars, taskVars, epc, max_concurrent, enriched_ok, enrich_failures >>
  /\ UNCHANGED indexVars

\* ------------------------------------------------------------------ Next
Next ==
  \/ Main
  \/ test_pipeline
  \/ phase1_hierarchy_scan
  \/ initialize_components
  \/ find_java_files
  \/ phase2_start
  \/ ParseRaise
  \/ \E n \in 0..MaxChunksPerFile : ParseOk(n)
  \/ LoopExit
  \/ FinalFlush
  \/ FinalWrite
  \/ FlushBufferReturn
  \/ FlushBufferExcept
  \/ EnrichBatchStart
  \/ \E k \in 1..Len(tasks) : TaskAdmit(k)
  \/ \E k \in 1..Len(tasks) : TaskReturn(k)
  \/ \E k \in 1..Len(tasks) : TaskRaise(k)
  \/ EnrichBatchReturn
  \/ AddBatchBegin
  \/ WriteSucceeds
  \/ \E e \in StorageErrors : WriteRetry(e)
  \/ \E e \in StorageErrors : WriteRaises(e)
  \/ Report

Spec == Init /\ [][Next]_vars

\* ---------------------------------- enrich_batch called on its own (tests)
InitDirect ==
  /\ pc = "direct"
  /\ rootExists = FALSE
  /\ treeFiles = 0
  /\ batch_size = 1
  /\ table_exists = FALSE
  /\ InitCommon
  /\ ScanIdle /\ ParseIdle /\ ResolveIdle

\* test_enrichment(): CodeEnricher(max_concurrent=m).enrich_batch(chunks)
test_enrichment(n, m) ==
  /\ pc = "direct"
  /\ enricher' = "CodeEnricher"
  /\ max_concurrent' = m
  /\ tasks' = ChunksOf(1, n)
  /\ epc' = "called"
  /\ pc' = "direct_await"
  /\ UNCHANGED << ctx, rootExists, treeFiles, batch_size, hierarchy_file, scan_read,
                  raised, parser, vector_store, java_files, file_idx, stats, buffer,
                  all_enriched_chunks, error_log, visited, parsed, storeVars, task_state,
                  semaphore, enrich_result, overtaken, enriched_ok, enrich_failures, report >>
  /\ UNCHANGED indexVars

\* the awaited enrich_batch call returns to the test
test_enrichment_return ==
  /\ pc = "direct_await"
  /\ epc = "returned"
  /\ pc' = "direct_done"
  /\ overtaken' = FALSE
  /\ UNCHANGED << pipeVars, storeVars, tasks, task_state, semaphore, enrich_result, epc, max_concurrent, enriched_ok,
                  enrich_failures, report >>
  /\ UNCHANGED indexVars

NextDirect ==
  \/ \E n \in 0..MaxDirectBatch, m \in 1..MaxDirectConcurrent : test_enrichment(n, m)
  \/ EnrichBatchStart
  \/ \E k \in 1..Len(tasks) : TaskAdmit(k)
  \/ \E k \in 1..Len(tasks) : TaskReturn(k)
  \/ \E k \in 1..Len(tasks) : TaskRaise(k)
  \/ EnrichBatchReturn
  \/ test_enrichment_return

SpecDirect == InitDirect /\ [][NextDirect]_vars

\* The event loop runs every ready coroutine and every awaited call returns
\* or raises, so a step that stays possible is eventually taken.
FairSpec == Spec /\ WF_vars(Next)
FairSpecDirect == SpecDirect /\ WF_vars(NextDirect)

\* =================================================================
\* Source files as the scanner and the parser see them
\* =================================================================
\* A node of the syntax tree, reduced to what the code reads: its type, its
\* children and the text of its leaves.  A dotted name is the sequence of its
\* identifiers ("p.Animal" is << "p", "Animal" >>); a body is the sequence of
\* its lines and a line the sequence of its tokens.
NoParent == << >>            \* _get_parent_class returns None
NoPackage == << "None" >>    \* _extract_package_name returns the sentinel "None"

Block(lines) == [block |-> TRUE, lines |-> lines]
NoBlock == [block |-> FALSE, lines |-> << >>]

ParamNode(type, param_type, name) == [type |-> type, param_type |-> param_type, name |-> name]

MethodNode(modifiers, return_type, name, params, body) ==
  [type |-> "method_declaration", modifiers |-> modifiers, return_type |-> return_type,
   name |-> name, params |-> params, body |-> body, children |-> << >>]

ConstructorNode(modifiers, name, params, body) ==
  [type |-> "constructor_declaration", modifiers |-> modifiers, return_type |-> None,
   name |-> name, params |-> params, body |-> body, children |-> << >>]

\* children: the members of the class body, nested class declarations included
ClassNode(name, superclass, fields, members) ==
  [type |-> "class_declaration", name |-> name, superclass |-> superclass,
   fields |-> fields, children |-> members]

\* readable: open() and the parse succeed on the file
SourceFile(readable, package, classes) ==
  [type |-> "program", readable |-> readable, package |-> package, children |-> classes]

\* _find_nodes_by_type: the node itself when it has the type, then the matches
\* in each child, in order (pre-order over the whole subtree)
RECURSIVE find_nodes_by_type(_, _)
RECURSIVE find_in_children(_, _, _)
find_in_children(kids, i, node_type) ==
  IF i > Len(kids)
    THEN << >>
    ELSE find_nodes_by_type(kids[i], node_type) \o find_in_children(kids, i + 1, node_type)

find_nodes_by_type(node, node_type) ==
  (IF node.type = node_type THEN << node >> ELSE << >>)
    \o find_in_children(node.children, 1, node_type)

extract_package_name(root_node) == root_node.package
get_class_name(class_node) == class_node.name
get_parent_class(class_node) == class_node.superclass

\* ------------------------------------------------ a dict (insertion-ordered)
DictHas(d, k) == \E i \in 1..Len(d) : d[i].key = k
DictGet(d, k) == d[CHOOSE i \in 1..Len(d) : d[i].key = k].value
DictKeys(d) == { d[i].key : i \in 1..Len(d) }

\* variant: an existing key keeps its first value
DictSet_keepfirst(d, k, v) ==
  IF DictHas(d, k) THEN d ELSE Append(d, [key |-> k, value |-> v])

\* d[k] = v: a new key goes last, an existing key keeps its position
DictSet(d, k, v) ==
  IF DictHas(d, k)
    THEN [i \in 1..Len(d) |-> IF d[i].key = k THEN [key |-> k, value |-> v] ELSE d[i]]
    ELSE Append(d, [key |-> k, value |-> v])

\* for k, v in entries[i..]: d[k] = v
RECURSIVE DictUpdate(_, _, _)
DictUpdate(d, entries, i) ==
  IF i > Len(entries)
    THEN d
    ELSE DictUpdate(DictSet(d, entries[i].key, entries[i].value), entries, i + 1)

\* =================================================================
\* HierarchyScanner
\* =================================================================
\* _get_public_method_names: the method declarations directly in the class body
\* whose modifiers contain "public", in declaration order
get_public_method_names(class_node) ==
  LET kids == class_node.children
      idx == SelectSeq([i \in 1..Len(kids) |-> i],
                       LAMBDA i : /\ kids[i].type = "method_declaration"
                                  /\ "public" \in Range(kids[i].modifiers))
  IN [j \in 1..Len(idx) |-> kids[idx[j]].name]

\* key of a class: package.class_name, or class_name when the package is "None"
full_class_name(package_name, class_name) ==
  IF package_name # NoPackage THEN package_name \o << class_name >> ELSE << class_name >>

ClassInfo(class_node) ==
  [parent |-> get_parent_class(class_node),
   methods |-> get_public_method_names(class_node),
   simple_name |-> get_class_name(class_node)]

\* _extract_class_info of a file that can be read
extract_class_info(file) ==
  LET class_nodes == find_nodes_by_type(file, "class_declaration")
      entries == [i \in 1..Len(class_nodes) |->
                    [key |-> full_class_name(extract_package_name(file),
                                             get_class_name(class_nodes[i])),
                     value |-> ClassInfo(class_nodes[i])]]
  IN DictUpdate(<< >>, entries, 1)

\* build_project_map is called
build_project_map_call ==
  /\ scan_pc = "idle"
  /\ IF ~rootExists
       THEN /\ scan_pc' = "raised"
            /\ UNCHANGED << scan_i, hierarchy_map >>
       ELSE /\ scan_pc' = "loop"
            /\ scan_i' = 1
            /\ hierarchy_map' = << >>
  /\ UNCHANGED << scan_java_files, hierarchy_json, parser_hierarchy_map, project_chunks,
                  previous_run, parseVars,
                  resolveVars, ingestVars >>

\* one iteration of the scan loop on a file that is read and merged
ScanFileOk ==
  /\ scan_pc = "loop"
  /\ scan_i <= Len(scan_java_files)
  /\ scan_java_files[scan_i].readable
  /\ hierarchy_map' = DictUpdate(hierarchy_map, extract_class_info(scan_java_files[scan_i]), 1)
  /\ scan_i' = scan_i + 1
  /\ UNCHANGED << scan_pc, scan_java_files, hierarchy_json, parser_hierarchy_map,
                  project_chunks, previous_run, parseVars,
                  resolveVars, ingestVars >>

\* variant: an exception leaves the loop
ScanFileExcept_break ==
  /\ scan_pc = "loop"
  /\ scan_i <= Len(scan_java_files)
  /\ ~scan_java_files[scan_i].readable
  /\ scan_i' = Len(scan_java_files) + 1
  /\ UNCHANGED << scan_pc, scan_java_files, hierarchy_map, hierarchy_json,
                  parser_hierarchy_map, project_chunks, previous_run, parseVars,
                  resolveVars, ingestVars >>

\* one iteration on a file whose extraction raises: except ... continue
ScanFileExcept ==
  /\ scan_pc = "loop"
  /\ scan_i <= Len(scan_java_files)
  /\ ~scan_java_files[scan_i].readable
  /\ scan_i' = scan_i + 1
  /\ UNCHANGED << scan_pc, scan_java_files, hierarchy_map, hierarchy_json,
                  parser_hierarchy_map, project_chunks, previous_run, parseVars,
                  resolveVars, ingestVars >>

\* variant: the map is returned without being saved
build_project_map_return_nosave ==
  /\ scan_pc = "loop"
  /\ scan_i > Len(scan_java_files)
  /\ scan_pc' = "returned"
  /\ UNCHANGED << scan_java_files, scan_i, hierarchy_map, hierarchy_json,
                  parser_hierarchy_map, project_chunks, previous_run, parseVars,
                  resolveVars, ingestVars >>

\* after the loop: json.dump(hierarchy_map) to the output path, then return
build_project_map_return ==
  /\ scan_pc = "loop"
  /\ scan_i > Len(scan_java_files)
  /\ hierarchy_json' = << hierarchy_map >>
  /\ scan_pc' = "returned"
  /\ UNCHANGED << scan_java_files, scan_i, hierarchy_map, parser_hierarchy_map,
                  project_chunks, previous_run, parseVars,
                  resolveVars, ingestVars >>

\* =================================================================
\* JavaCodeParser
\* =================================================================
\* class_name.endswith("." + parent_class)
EndsWithDotted(class_name, parent_class) ==
  /\ Len(class_name) > Len(parent_class)
  /\ SubSeq(class_name, Len(class_name) - Len(parent_class) + 1, Len(class_name)) = parent_class

\* the entry _get_inherited_methods resolves a parent name to: the exact key,
\* else the first entry, in dict order, with that simple name or a key ending
\* in ".name"; << >> when there is none
LookupParent(parent_class, hmap) ==
  IF DictHas(hmap, parent_class)
    THEN << DictGet(hmap, parent_class) >>
    ELSE LET hits == SelectSeq(hmap, LAMBDA e : \/ << e.value.simple_name >> = parent_class
                                                \/ EndsWithDotted(e.key, parent_class))
         IN IF hits = << >> THEN << >> ELSE << hits[1].value >>

\* variant: only the direct parent's methods are returned
get_inherited_methods_direct(parent_class, hmap) ==
  IF hmap = << >>
    THEN << >>
    ELSE LET parent_info == LookupParent(parent_class, hmap)
         IN IF parent_info = << >> THEN << >> ELSE parent_info[1].methods

\* _get_inherited_methods: the parent's methods, then the grandparent's, ...
RECURSIVE get_inherited_methods(_, _)
get_inherited_methods(parent_class, hmap) ==
  IF hmap = << >>
    THEN << >>
    ELSE LET parent_info == LookupParent(parent_class, hmap)
         IN IF parent_info = << >>
              THEN << >>
              ELSE parent_info[1].methods
                     \o (IF parent_info[1].parent # NoParent
                           THEN get_inherited_methods(parent_info[1].parent, hmap)
                           ELSE << >>)

extract_fields(class_node) == class_node.fields

\* _format_class_context: "Package: .., Class: .., Fields: ..", then
\* ", Extends: .." when there is a parent and ", Inherited Methods: [..]" when
\* the resolved list is not empty; kept as the parts the string is made of
format_class_context(package_name, class_name, fields, parent_class, hmap) ==
  [package |-> package_name,
   class |-> class_name,
   fields |-> fields,
   extends |-> parent_class,
   inherited |-> IF parent_class # NoParent
                   THEN get_inherited_methods(parent_class, hmap)
                   ELSE << >>]

\* _is_public_method: 'public' in the text of the modifiers node
is_public_method(method_node) == "public" \in Range(method_node.modifiers)

\* _extract_parameters_with_types: "Type name" for every child of type
\* formal_parameter; children of any other type are passed over
extract_parameters_with_types(formal_params) ==
  LET kept == SelectSeq(formal_params, LAMBDA child : child.type = "formal_parameter")
  IN [i \in 1..Len(kept) |-> << kept[i].param_type, kept[i].name >>]

\* param_type.split('<')[0]: the text before the first "<"
RECURSIVE split_generic(_, _)
split_generic(text, i) ==
  IF i > Len(text) \/ text[i] = "<"
    THEN << >>
    ELSE << text[i] >> \o split_generic(text, i + 1)

\* clean_type: generics cut off, then every "[]" removed
clean_type(param_type) ==
  SelectSeq(split_generic(param_type, 1), LAMBDA tok : tok # "[]")

\* parameter_types of _extract_parameters_with_types: the cleaned type of every
\* child of type formal_parameter
parameter_types(formal_params) ==
  LET kept == SelectSeq(formal_params, LAMBDA child : child.type = "formal_parameter")
  IN [i \in 1..Len(kept) |-> clean_type(kept[i].param_type)]

\* the names _filter_complex_types passes over
primitives_and_common ==
  { << n >> : n \in { "int", "Integer", "long", "Long", "short", "Short", "byte", "Byte",
                      "float", "Float", "double", "Double", "boolean", "Boolean",
                      "char", "Character", "void", "Void", "String", "Object",
                      "List", "ArrayList", "Set", "HashSet", "Map", "HashMap",
                      "Collection", "Iterable", "Iterator", "Optional", "Stream" } }

\* _filter_complex_types: the types outside primitives_and_common, each kept
\* where it is seen first
filter_complex_types(types) ==
  LET complex_types == SelectSeq(types, LAMBDA t : t \notin primitives_and_common)
      idx == SelectSeq([i \in 1..Len(complex_types) |-> i],
                       LAMBDA i : \A j \in 1..(i - 1) : complex_types[j] # complex_types[i])
  IN [k \in 1..Len(idx) |-> complex_types[idx[k]]]

\* text of the whole declaration, taken as the body when no block is found
DeclarationText == [block |-> FALSE, lines |-> << << "decl" >> >>]

\* _extract_method_info: name, normalized signature (the parts ' '.join puts
\* together), body and class context
extract_method_info(method_node, class_context, class_name, is_constructor) ==
  [method_name |-> IF is_constructor THEN "<Constructor>" ELSE method_node.name,
   method_signature |->
     [modifiers |-> method_node.modifiers,
      return_type |-> IF is_constructor THEN "<Constructor>"
                      ELSE IF method_node.return_type # None THEN method_node.return_type
                      ELSE "void",
      name |-> IF is_constructor THEN class_name ELSE method_node.name,
      params |-> extract_parameters_with_types(method_node.params)],
   method_body |-> IF method_node.body.block THEN method_node.body ELSE DeclarationText,
   class_context |-> class_context,
   dependency_types |-> filter_complex_types(parameter_types(method_node.params))]

\* line.startswith('//') or line.startswith('/*') or line.startswith('*')
StartsWithCommentMarker(line) == Head(line) \in {"//", "/*", "*", "*/"}

\* _is_empty_method: the braces are stripped when the text starts and ends with
\* one; empty when no line is left that is neither blank nor starts with a
\* comment marker
is_empty_method(method_body) ==
  \A i \in 1..Len(method_body.lines) :
    method_body.lines[i] = << >> \/ StartsWithCommentMarker(method_body.lines[i])

\* _generate_method_id: sha256 of class_context + "::" + method_signature;
\* two ids are equal exactly when the hashed strings are
generate_method_id(class_context, method_signature) ==
  [sha256 |-> << class_context, "::", method_signature >>]

\* the chunks parse_file appends for the nodes of one of its two inner loops
NodeChunks(nodes, class_context, class_name, is_constructor) ==
  LET info(i) == extract_method_info(nodes[i], class_context, class_name, is_constructor)
      idx == SelectSeq([i \in 1..Len(nodes) |-> i],
                       LAMBDA i : /\ is_public_method(nodes[i])
                                  /\ ~is_empty_method(info(i).method_body))
  IN [j \in 1..Len(idx) |->
        [id |-> generate_method_id(class_context, info(idx[j]).method_signature),
         method_name |-> info(idx[j]).method_name,
         method_signature |-> info(idx[j]).method_signature,
         method_body |-> info(idx[j]).method_body,
         class_context |-> class_context,
         dependency_types |-> info(idx[j]).dependency_types]]

\* body of the loop of parse_file over the class declarations
ClassChunks(class_node, package_name, hmap) ==
  LET class_name == get_class_name(class_node)
      class_context == format_class_context(package_name, class_name,
                                            extract_fields(class_node),
                                            get_parent_class(class_node), hmap)
  IN NodeChunks(find_nodes_by_type(class_node, "method_declaration"),
                class_context, class_name, FALSE)
       \o NodeChunks(find_nodes_by_type(class_node, "constructor_declaration"),
                     class_context, class_name, TRUE)

RECURSIVE ChunksFrom(_, _, _, _)
ChunksFrom(class_nodes, i, package_name, hmap) ==
  IF i > Len(class_nodes)
    THEN << >>
    ELSE ClassChunks(class_nodes[i], package_name, hmap)
           \o ChunksFrom(class_nodes, i + 1, package_name, hmap)

\* parse_file of a file that exists and can be read
parse_file(file, hmap) ==
  ChunksFrom(find_nodes_by_type(file, "class_declaration"), 1,
             extract_package_name(file), hmap)

\* JavaCodeParser(hierarchy_map_path): _load_hierarchy_map reads the file
\* written by the scan ({} when the file is missing)
JavaCodeParser_init ==
  /\ scan_pc = "returned"
  /\ parser_hierarchy_map' = IF hierarchy_json = << >> THEN << >> ELSE hierarchy_json[1]
  /\ scan_pc' = "parser_ready"
  /\ UNCHANGED << scan_java_files, scan_i, hierarchy_map, hierarchy_json, project_chunks,
                  previous_run, parseVars,
                  resolveVars, ingestVars >>

\* parse_file on every file of the tree, with the loaded map
parse_project ==
  /\ scan_pc = "parser_ready"
  /\ project_chunks' =
       [i \in 1..Len(scan_java_files) |->
          [file |-> scan_java_files[i],
           chunks |-> IF scan_java_files[i].readable
                        THEN parse_file(scan_java_files[i], parser_hierarchy_map)
                        ELSE << >>]]
  /\ scan_pc' = "parsed"
  /\ UNCHANGED << scan_java_files, scan_i, hierarchy_map, hierarchy_json,
                  parser_hierarchy_map, previous_run, parseVars,
                  resolveVars, ingestVars >>

Bijections(n) == { f \in [1..n -> 1..n] : \A i, j \in 1..n : i # j => f[i] # f[j] }

\* the same tree is ingested again; rglob lists its files in the given order
next_run(order) ==
  /\ scan_pc = "parsed"
  /\ previous_run = << >>
  /\ previous_run' = << [hierarchy_map |-> hierarchy_map, project_chunks |-> project_chunks] >>
  /\ scan_java_files' = [i \in 1..Len(scan_java_files) |-> scan_java_files[order[i]]]
  /\ scan_pc' = "idle"
  /\ scan_i' = 0
  /\ hierarchy_map' = << >>
  /\ parser_hierarchy_map' = << >>
  /\ project_chunks' = << >>
  /\ UNCHANGED << hierarchy_json, parseVars,
                  resolveVars, ingestVars >>

\* ------------------------------------------------- trees that are scanned
PublicMethod(name) ==
  MethodNode(<< "public" >>, "void", name, << >>, Block(<< << "stmt" >> >>))
PublicMethods(names) == [i \in 1..Len(names) |-> PublicMethod(names[i])]

AnimalClasses ==
  { ClassNode("Animal", NoParent, << >>, PublicMethods(m)) :
      m \in { << "eat", "sleep" >>, << "run" >> } }
DogClasses ==
  { ClassNode("Dog", parent, << >>, PublicMethods(<< "bark" >>)) :
      parent \in { << "Animal" >>, << "Thread" >> } }
PuppyClass == ClassNode("Puppy", << "Dog" >>, << >>, PublicMethods(<< "yip" >>))

\* a class that declares two overloads of log, a private helper and close
LoggerClass ==
  ClassNode("Logger", NoParent, << >>,
            << MethodNode(<< "public" >>, "void", "log", << >>, Block(<< << "stmt" >> >>)),
               MethodNode(<< "private" >>, "void", "rotate", << >>, Block(<< << "stmt" >> >>)),
               MethodNode(<< "public" >>, "void", "log",
                          << ParamNode("formal_parameter", << "String" >>, "msg") >>,
                          Block(<< << "stmt" >> >>)),
               MethodNode(<< "public" >>, "void", "close", << >>, Block(<< << "stmt" >> >>)) >>)

ScanPackages == { NoPackage, << "p" >> }

ScanFiles ==
  { SourceFile(TRUE, p, << c >>) :
      p \in ScanPackages, c \in AnimalClasses \cup DogClasses \cup { PuppyClass, LoggerClass } }
  \cup { SourceFile(TRUE, p, << ClassNode("Dog", << "Animal" >>, << >>, PublicMethods(<< "bark" >>)),
                               ClassNode("Animal", NoParent, << >>, PublicMethods(<< "eat", "sleep" >>)) >>) :
           p \in ScanPackages }
  \cup { SourceFile(FALSE, << "p" >>, << ClassNode("Animal", NoParent, << >>, PublicMethods(<< "run" >>)) >>) }

\* lists of distinct files of length n
FileLists(n) ==
  { s \in [1..n -> ScanFiles] : \A i, j \in 1..n : i # j => s[i] # s[j] }

\* pipeline, enricher and store are not running
IngestIdle ==
  /\ pc = "idle"
  /\ treeFiles = 0
  /\ batch_size = 1
  /\ table_exists = FALSE
  /\ InitCommon

InitScan ==
  /\ IngestIdle
  /\ rootExists \in BOOLEAN
  /\ scan_pc = "idle"
  /\ scan_java_files \in UNION { FileLists(n) : n \in 0..MaxScanFiles }
  /\ (~rootExists => scan_java_files = << >>)
  /\ scan_i = 0
  /\ hierarchy_map = << >>
  /\ hierarchy_json = << >>
  /\ parser_hierarchy_map = << >>
  /\ project_chunks = << >>
  /\ previous_run = << >>
  /\ ParseIdle /\ ResolveIdle

NextScan ==
  \/ build_project_map_call
  \/ ScanFileOk
  \/ ScanFileExcept
  \/ build_project_map_return
  \/ JavaCodeParser_init
  \/ parse_project
  \/ \E order \in Bijections(Len(scan_java_files)) : next_run(order)

SpecScan == InitScan /\ [][NextScan]_vars

\* ------------------------------------------------- files that are parsed
\* lines of a method body, as token sequences: blank, "// text", "/* text */",
\* "/* text", "text" (inside a block comment), "* text", "*/", a statement,
\* "/* text */ statement" and "statement // text"
BodyLines ==
  { << >>, << "//", "text" >>, << "/*", "text", "*/" >>, << "/*", "text" >>,
    << "text" >>, << "*", "text" >>, << "*/" >>, << "stmt" >>,
    << "/*", "text", "*/", "stmt" >>, << "stmt", "//", "text" >> }

\* Java's lexical structure: the tokens of a line from position i on, read with
\* in_block telling whether a block comment is open; ok when the line is well
\* formed, stmt when a statement stands outside every comment
RECURSIVE LexLine(_, _, _)
LexLine(line, i, in_block) ==
  IF i > Len(line) THEN [ok |-> TRUE, in_block |-> in_block, stmt |-> FALSE]
  ELSE IF in_block
    THEN IF line[i] = "*/" THEN LexLine(line, i + 1, FALSE)
         ELSE IF line[i] = "text" \/ (line[i] = "*" /\ i = 1) THEN LexLine(line, i + 1, TRUE)
         ELSE [ok |-> FALSE, in_block |-> TRUE, stmt |-> FALSE]
    ELSE IF line[i] = "stmt"
           THEN [LexLine(line, i + 1, FALSE) EXCEPT !.stmt = TRUE]
         ELSE IF line[i] = "/*" THEN LexLine(line, i + 1, TRUE)
         ELSE IF line[i] = "//"
           THEN [ok |-> \A k \in (i + 1)..Len(line) : line[k] = "text",
                 in_block |-> FALSE, stmt |-> FALSE]
         ELSE [ok |-> FALSE, in_block |-> FALSE, stmt |-> FALSE]

RECURSIVE LexBody(_, _, _)
LexBody(lines, n, in_block) ==
  IF n > Len(lines) THEN [ok |-> ~in_block, stmt |-> FALSE]
  ELSE LET l == LexLine(lines[n], 1, in_block)
           rest == LexBody(lines, n + 1, l.in_block)
       IN [ok |-> l.ok /\ rest.ok, stmt |-> l.stmt \/ rest.stmt]

\* the body holds at least one statement
HasStatement(lines) == LexBody(lines, 1, FALSE).stmt

MethodBodies ==
  { Block(lines) : lines \in { l \in UNION { [1..n -> BodyLines] : n \in 0..MaxBodyLines } :
                                 LexBody(l, 1, FALSE).ok } }

StatementBody == Block(<< << "stmt" >> >>)

\* children of a formal_parameters node: formal parameters and, in the last
\* place only, a variable-arity parameter ("Object... args")
ParamNodes ==
  { ParamNode("formal_parameter", << "String" >>, "msg"),
    ParamNode("formal_parameter", << "int" >>, "n"),
    ParamNode("spread_parameter", << "Object" >>, "args") }

ParamLists ==
  { pl \in UNION { [1..n -> ParamNodes] : n \in 0..MaxParams } :
      /\ \A i, j \in 1..Len(pl) : i # j => pl[i].name # pl[j].name
      /\ \A i \in 1..(Len(pl) - 1) : pl[i].type = "formal_parameter" }

MethodF == MethodNode(<< "public" >>, "int", "f", << >>, StatementBody)
MethodG == MethodNode(<< "public" >>, "int", "g", << >>, StatementBody)

Members ==
  { MethodNode(<< "public" >>, "int", "f", << >>, b) : b \in MethodBodies }
  \cup { ConstructorNode(<< "public" >>, "Account", << >>, b) : b \in MethodBodies }
  \cup { MethodNode(<< "public", "abstract" >>, "int", "f", << >>, NoBlock),
         MethodNode(<< "private" >>, "int", "f", << >>, StatementBody),
         MethodNode(<< >>, "int", "f", << >>, StatementBody) }

\* declared parameter types, as the text of the type node: a class, a primitive,
\* String, a generic type and an array type
DeclaredTypes ==
  { << "Transaction" >>, << "Widget" >>, << "int" >>, << "String" >>,
    << "List", "<", "Transaction", ">" >>, << "Transaction", "[]" >> }

ParamNames == << "a", "b", "c", "d" >>

\* parameter lists over DeclaredTypes; the last parameter may be of variable
\* arity ("Transaction... a")
TypedParamLists ==
  { [i \in 1..Len(kt) |-> ParamNode(kt[i][1], kt[i][2], ParamNames[i])] :
      kt \in { l \in UNION { [1..n -> { "formal_parameter", "spread_parameter" } \X DeclaredTypes] :
                               n \in 0..MaxParams } :
                 \A i \in 1..(Len(l) - 1) : l[i][1] = "formal_parameter" } }

ParsePackage == << "p" >>

\* a class with one member
SingleMemberFiles ==
  { SourceFile(TRUE, ParsePackage, << ClassNode("Account", NoParent, << >>, << m >>) >>) :
      m \in Members }

\* a class with two methods of the same name and different parameter lists
OverloadFiles ==
  { SourceFile(TRUE, ParsePackage,
               << ClassNode("Account", NoParent, << >>,
                            << MethodNode(<< "public" >>, "void", "log", pp[1], StatementBody),
                               MethodNode(<< "public" >>, "void", "log", pp[2], StatementBody) >>) >>) :
      pp \in { q \in ParamLists \X ParamLists : q[1] # q[2] } }

\* a class with a nested class; two classes with a nested class of the same name
NestedFiles ==
  { SourceFile(TRUE, ParsePackage,
               << ClassNode("Outer", NoParent, << >>,
                            own \o << ClassNode("Inner", NoParent, << >>, << m >>) >>) >>) :
      own \in { << >>, << MethodF >> },
      m \in { MethodF, MethodG, MethodNode(<< "private" >>, "int", "f", << >>, StatementBody),
              ConstructorNode(<< "public" >>, "Inner", << >>, StatementBody) } }
  \cup { SourceFile(TRUE, ParsePackage,
                    << ClassNode("A", NoParent, << >>, << ClassNode("X", NoParent, << >>, << MethodF >>) >>),
                       ClassNode("B", NoParent, << >>, << ClassNode("X", NoParent, << >>, << m >>) >>) >>) :
           m \in { MethodF, MethodG } }

\* a class with one method or one constructor that takes parameters
DependencyFiles ==
  { SourceFile(TRUE, ParsePackage,
               << ClassNode("Processor", NoParent, << >>, << m >>) >>) :
      m \in { MethodNode(<< "public" >>, "void", "process", pl, StatementBody) :
                pl \in TypedParamLists }
              \cup { ConstructorNode(<< "public" >>, "Processor", pl, StatementBody) :
                       pl \in TypedParamLists } }

ParseFiles ==
  SingleMemberFiles \cup OverloadFiles \cup NestedFiles \cup DependencyFiles
    \cup { SourceFile(FALSE, ParsePackage, << >>) }

InitParse ==
  /\ IngestIdle
  /\ rootExists = TRUE
  /\ ScanIdle
  /\ parse_pc = "idle"
  /\ source_file \in ParseFiles
  /\ results = << >>
  /\ ResolveIdle

\* parse_file(file_path) returns its list of chunks
ParseFileReturn ==
  /\ parse_pc = "idle"
  /\ source_file.readable
  /\ results' = parse_file(source_file, parser_hierarchy_map)
  /\ parse_pc' = "returned"
  /\ UNCHANGED << source_file, scanVars, resolveVars, ingestVars >>

\* the file does not exist or cannot be read: parse_file raises
ParseFileRaise ==
  /\ parse_pc = "idle"
  /\ ~source_file.readable
  /\ parse_pc' = "raised"
  /\ UNCHANGED << source_file, results, scanVars, resolveVars, ingestVars >>

NextParse ==
  \/ ParseFileReturn
  \/ ParseFileRaise

SpecParse == InitParse /\ [][NextParse]_vars

\* ------------------------------------- _get_inherited_methods, frame by frame
\* the map build_project_map returns for the files in this visit order
RECURSIVE ScanAll(_, _, _)
ScanAll(files, i, map) ==
  IF i > Len(files)
    THEN map
    ELSE ScanAll(files, i + 1,
                 IF files[i].readable
                   THEN DictUpdate(map, extract_class_info(files[i]), 1)
                   ELSE map)

\* _format_class_context calls _get_inherited_methods(parent_class) for a class
\* of the project that has an extends clause
format_class_context_call(class_node) ==
  /\ resolve_pc = "idle"
  /\ get_parent_class(class_node) # NoParent
  /\ resolve_pc' = "frame"
  /\ resolve_parent' = get_parent_class(class_node)
  /\ resolve_depth' = 1
  /\ resolve_methods' = << >>
  /\ UNCHANGED << scanVars, parseVars, ingestVars >>

\* one frame of _get_inherited_methods: look the parent up, take its methods,
\* and either return or call itself with the parent's parent
get_inherited_methods_frame ==
  /\ resolve_pc = "frame"
  /\ LET parent_info == IF parser_hierarchy_map = << >>
                          THEN << >>
                          ELSE LookupParent(resolve_parent, parser_hierarchy_map)
     IN IF parent_info = << >>
          THEN /\ resolve_pc' = "returned"
               /\ UNCHANGED << resolve_parent, resolve_depth, resolve_methods >>
          ELSE IF parent_info[1].parent = NoParent
            THEN /\ resolve_methods' = resolve_methods \o parent_info[1].methods
                 /\ resolve_pc' = "returned"
                 /\ UNCHANGED << resolve_parent, resolve_depth >>
            ELSE /\ resolve_depth < MaxRecursionDepth
                 /\ resolve_methods' = resolve_methods \o parent_info[1].methods
                 /\ resolve_parent' = parent_info[1].parent
                 /\ resolve_depth' = resolve_depth + 1
                 /\ UNCHANGED resolve_pc
  /\ UNCHANGED << scanVars, parseVars, ingestVars >>

\* the recursive call would exceed the interpreter's stack: RecursionError
\* unwinds every frame
get_inherited_methods_overflow ==
  /\ resolve_pc = "frame"
  /\ parser_hierarchy_map # << >>
  /\ LET parent_info == LookupParent(resolve_parent, parser_hierarchy_map)
     IN /\ parent_info # << >>
        /\ parent_info[1].parent # NoParent
  /\ resolve_depth = MaxRecursionDepth
  /\ resolve_pc' = "RecursionError"
  /\ resolve_methods' = << >>
  /\ UNCHANGED << resolve_parent, resolve_depth, scanVars, parseVars, ingestVars >>

\* ---------------------------------------- projects with several packages
\* classes Foo and Bar, with or without an extends clause naming the other
CrossPackageClasses ==
  { ClassNode(n[1], parent, << >>, PublicMethods(<< n[2] >>)) :
      n \in { << "Foo", "foo" >>, << "Bar", "bar" >> },
      parent \in { NoParent, << "Foo" >>, << "Bar" >> } }

CrossPackageFiles ==
  { SourceFile(TRUE, p, cs) :
      p \in { << "p" >>, << "q" >> },
      cs \in { l \in UNION { [1..n -> CrossPackageClasses] : n \in 1..2 } :
                 /\ \A i, j \in 1..Len(l) : i # j => l[i].name # l[j].name
                 /\ \A i \in 1..Len(l) : l[i].superclass # << l[i].name >> } }

\* the classes a project declares, each with its package
DeclaredClasses(files) ==
  UNION { { [package |-> files[i].package, node |-> files[i].children[j]] :
              j \in 1..Len(files[i].children) } : i \in 1..Len(files) }

\* the class an extends clause refers to under Java's scoping: the class of
\* that name in the same package, else the only class of that name in the
\* project (imported); {} when the parent is outside the project
RealParent(c, classes) ==
  LET named == { d \in classes : << d.node.name >> = c.node.superclass }
      same == { d \in named : d.package = c.package }
  IN IF same # {} THEN same
     ELSE IF Cardinality(named) = 1 THEN named
     ELSE {}

\* following the extends clauses from c ends within fuel steps
RECURSIVE ChainEnds(_, _, _)
ChainEnds(c, classes, fuel) ==
  \/ RealParent(c, classes) = {}
  \/ /\ fuel > 0
     /\ \A d \in RealParent(c, classes) : ChainEnds(d, classes, fuel - 1)

\* projects in which every qualified name is declared once, every extends
\* clause names a class of the project, and the extends graph has no cycle
CrossPackageProjects ==
  { files \in UNION { [1..n -> CrossPackageFiles] : n \in 1..MaxScanFiles } :
      LET classes == DeclaredClasses(files)
      IN /\ Cardinality(classes)
              = Cardinality({ << c.package, c.node.name >> : c \in classes })
         /\ Cardinality(classes)
              = Cardinality(UNION { { << i, j >> : j \in 1..Len(files[i].children) } :
                                     i \in 1..Len(files) })
         /\ \A c \in classes :
              /\ c.node.superclass # NoParent => RealParent(c, classes) # {}
              /\ ChainEnds(c, classes, Cardinality(classes)) }

\* the project has been scanned and the parser has loaded the map
InitResolve ==
  /\ IngestIdle
  /\ rootExists = TRUE
  /\ scan_java_files \in CrossPackageProjects
  /\ scan_pc = "parser_ready"
  /\ scan_i = Len(scan_java_files) + 1
  /\ hierarchy_map = ScanAll(scan_java_files, 1, << >>)
  /\ hierarchy_json = << hierarchy_map >>
  /\ parser_hierarchy_map = hierarchy_map
  /\ project_chunks = << >>
  /\ previous_run = << >>
  /\ ParseIdle /\ ResolveIdle

NextResolve ==
  \/ \E c \in DeclaredClasses(scan_java_files) : format_class_context_call(c.node)
  \/ get_inherited_methods_frame
  \/ get_inherited_methods_overflow

SpecResolve == InitResolve /\ [][NextResolve]_vars

\* a frame that can run does run: the interpreter executes the call
FairSpecResolve == SpecResolve /\ WF_vars(NextResolve)

\* =================================================================
\* Properties
\* =================================================================

\* the phase of the run that a control position belongs to
Phase ==
  CASE pc \in {"main", "main_returned", "direct", "direct_await", "direct_done"} -> "NotStarted"
    [] pc \in {"run", "raised"} -> "ScanningHierarchy"
    [] pc \in {"init_components", "find_files", "phase2"} -> "BuildingComponents"
    [] pc \in {"loop", "await_enrich", "add_batch", "write_try"} /\ ctx = "loop" -> "Pass2Running"
    [] pc \in {"final_flush", "final_write", "report"} -> "Draining"
    [] pc \in {"await_enrich", "add_batch", "write_try"} /\ ctx = "final" -> "Draining"
    [] pc = "done" -> "Done"

PhaseOrder == << "NotStarted", "ScanningHierarchy", "BuildingComponents",
                 "Pass2Running", "Draining", "Done" >>
PhaseIndex(p) == CHOOSE i \in 1..Len(PhaseOrder) : PhaseOrder[i] = p

ComponentsConstructed == parser # None /\ enricher # None /\ vector_store # None

\* a step in which the loop iterated one more file (parse_file was called)
ParseStep == Len(visited') = Len(visited) + 1

AllCalledChunks ==
  UNION { Range(add_batch_calls[i].chunks) : i \in 1..Len(add_batch_calls) }

\* number of times chunk c was handed to add_batch
TimesWritten(c) ==
  Cardinality(UNION { { << i, j >> : j \in { j \in 1..Len(add_batch_calls[i].chunks) :
                                                add_batch_calls[i].chunks[j] = c } } :
                      i \in 1..Len(add_batch_calls) })

\* no parse, enrichment or storage call has failed so far
NoFailure == error_log = << >> /\ enrich_failures = {}

Pass2Ended == pc \in {"report", "done"}

\* C1: every step keeps the phase or moves to the next phase of
\* ScanningHierarchy -> BuildingComponents -> Pass2Running -> Draining -> Done,
\* and parse_file is called (Pass 2 runs) only when the hierarchy file has been
\* written and the parser, the enricher and the vector store are constructed.
C1_PhaseOrder ==
  [][ /\ PhaseIndex(Phase') \in {PhaseIndex(Phase), PhaseIndex(Phase) + 1}
      /\ ParseStep => (hierarchy_file /\ ComponentsConstructed /\ Phase = "Pass2Running")
      /\ Phase' = "Pass2Running" => (hierarchy_file' /\ ComponentsConstructed') ]_vars

C1_Witness == pc = "done" /\ Len(visited) >= 2 /\ hierarchy_file

\* C2: a file whose parse raises is counted in files_failed, gets exactly one
\* error-log line, leaves both buffers as they were, and the loop goes on to the
\* next file; when the loop is over every file has been iterated.
C2_ParseFailureIsolated ==
  [][ /\ (ParseStep /\ visited'[Len(visited')] = "failed")
           => /\ stats'.files_failed = stats.files_failed + 1
              /\ stats'.files_processed = stats.files_processed
              /\ error_log' = Append(error_log, LogLine(file_idx, "parse"))
              /\ buffer' = buffer
              /\ all_enriched_chunks' = all_enriched_chunks
              /\ file_idx' = file_idx + 1
              /\ pc' = "loop"
      /\ Phase' \in {"Draining", "Done"} => Len(visited') = java_files' ]_vars

C2_Witness ==
  /\ pc = "done"
  /\ visited = << "failed", "ok" >>
  /\ stats.files_failed = 1 /\ stats.files_processed = 1
  /\ Len(error_log) = 1
  /\ \E c \in AllCalledChunks : c.file_path = 2

\* C3: when Pass 2 has ended without any failure, every chunk returned by the
\* parser was handed to add_batch exactly once and the store holds one record
\* per extracted chunk.
C3_ExactlyOnce ==
  (Pass2Ended /\ NoFailure)
     => /\ \A c \in Range(parsed) : TimesWritten(c) = 1
        /\ AllCalledChunks = Range(parsed)
        /\ Len(store) = Len(parsed)

C3_Witness ==
  /\ pc = "done" /\ NoFailure
  /\ Len(parsed) >= WriteMultiple
  /\ \E i \in 1..Len(add_batch_calls) : Len(add_batch_calls[i].chunks) >= WriteMultiple

RunningCalls == { i \in 1..Len(add_batch_calls) : add_batch_calls[i].outcome = "running" }
UnfinishedTasks == { i \in 1..Len(task_state) : task_state[i] \in {"pending", "running"} }

C5_SingleWriter ==
  /\ Cardinality(RunningCalls) <= 1
  /\ (RunningCalls # {} \/ pc \in {"add_batch", "write_try"})
        => /\ UnfinishedTasks = {}
           /\ InFlight = 0
           /\ epc = "idle"
  /\ RunningCalls # {} => pc = "write_try"

C5_Witness ==
  /\ pc = "write_try"
  /\ ctx = "loop"
  /\ attempt_log # << >>
  /\ Len(task_state) >= 2

\* C6: the number of enrichment calls in flight never exceeds max_concurrent,
\* and every task of a batch that waits at the gate is eventually admitted.
C6_BoundedFanOut ==
  /\ [](InFlight <= max_concurrent)
  /\ \A k \in 1..MaxDirectBatch :
        (k <= Len(task_state) /\ task_state[k] = "pending")
           ~> (k <= Len(task_state) /\ task_state[k] # "pending")

C6_Witness ==
  /\ epc = "gather"
  /\ InFlight = max_concurrent
  /\ \E k \in 1..Len(task_state) : task_state[k] = "pending"
  /\ \E k \in 1..Len(task_state) : task_state[k] \in {"done", "failed"}

\* C7: a failing enrichment task cancels no sibling: when enrich_batch returns
\* every task has run to its end, the returned list is exactly the chunks of the
\* tasks that did not fail, and every chunk enrich_batch ever returned has been
\* handed to add_batch when Pass 2 has ended.
C7_SiblingsSurvive ==
  /\ \A i \in 1..Len(task_state) : task_state[i] # "cancelled"
  /\ epc = "returned"
        => /\ \A i \in 1..Len(task_state) : task_state[i] \in {"done", "failed"}
           /\ Len(task_state) = Len(tasks)
           /\ Range(enrich_result) = Range(tasks) \ enrich_failures
           /\ Len(enrich_result) = Cardinality(Range(tasks) \ enrich_failures)
  /\ Pass2Ended => Range(enriched_ok) \subseteq AllCalledChunks

C7_Witness ==
  /\ pc = "done"
  /\ \E c \in enrich_failures : \E d \in Range(enriched_ok) :
        /\ d.file_path = c.file_path
        /\ d \in AllCalledChunks
        /\ c \notin AllCalledChunks

LastCall(calls) == calls[Len(calls)]

\* a step in which the add_batch call in progress ends with an exception
StorageFailStep ==
  /\ add_batch_calls # << >>
  /\ Len(add_batch_calls') = Len(add_batch_calls)
  /\ LastCall(add_batch_calls).outcome = "running"
  /\ LastCall(add_batch_calls').outcome = "raised"

\* C8: when a storage write fails the exception is caught: the error log gains
\* one line per chunk of the batch, each naming that chunk's file, chunks_indexed
\* keeps its value, the run goes on, and no chunk of a failed batch is ever
\* handed to add_batch again.
C8_StorageFailureIsolated ==
  [][ /\ StorageFailStep
           => /\ Len(error_log') = Len(error_log) + Len(write_batch)
              /\ \A i \in 1..Len(error_log) : error_log'[i] = error_log[i]
              /\ \A i \in 1..Len(write_batch) :
                    /\ error_log'[Len(error_log) + i].file = write_batch[i].file_path
                    /\ error_log'[Len(error_log) + i].kind \in StorageErrors
              /\ stats'.chunks_indexed = stats.chunks_indexed
              /\ store' = store
              /\ raised' = None
              /\ pc' \in {"loop", "report"}
      /\ \A i \in 1..Len(add_batch_calls') : \A j \in 1..Len(add_batch_calls') :
            (i < j /\ add_batch_calls'[i].outcome = "raised")
               => Range(add_batch_calls'[i].chunks) \cap Range(add_batch_calls'[j].chunks) = {} ]_vars

C8_Witness ==
  /\ pc = "done"
  /\ \E i \in 1..Len(add_batch_calls) :
        /\ add_batch_calls[i].outcome = "raised"
        /\ Len(add_batch_calls[i].chunks) >= WriteMultiple
        /\ Len(error_log) >= Len(add_batch_calls[i].chunks)
  /\ stats.chunks_indexed = 0

C10_MissingRootIsFatal ==
  ~rootExists
     => /\ hierarchy_file = FALSE
        /\ scan_read = 0
        /\ parser = None /\ enricher = None /\ vector_store = None
        /\ visited = << >>
        /\ Phase \in {"NotStarted", "ScanningHierarchy"}
        /\ pc \in {"main", "main_returned", "run", "raised"}
        /\ (pc = "raised" <=> raised = "FileNotFoundError")

C10_Witness == ~rootExists /\ pc = "raised" /\ raised = "FileNotFoundError"

\* s without the elements of excluded and without repetitions, first
\* occurrences kept in their order
RECURSIVE FirstOccurrences(_, _, _)
FirstOccurrences(s, i, excluded) ==
  IF i > Len(s) THEN << >>
  ELSE IF s[i] \in excluded \/ \E j \in 1..(i - 1) : s[j] = s[i]
    THEN FirstOccurrences(s, i + 1, excluded)
    ELSE << s[i] >> \o FirstOccurrences(s, i + 1, excluded)

\* ------------------------------------------------- hierarchy scan
ClassesOf(file) == find_nodes_by_type(file, "class_declaration")

\* fully-qualified name of a declared class: package.simpleName, or simpleName
\* when the file has no package declaration
QualifiedName(file, class_node) ==
  IF file.package = NoPackage THEN << class_node.name >>
  ELSE file.package \o << class_node.name >>

\* << i, j >>: the j-th class declaration of the i-th visited file, for the
\* files whose extraction did not fail
DeclaredAt ==
  UNION { { << i, j >> : j \in 1..Len(ClassesOf(scan_java_files[i])) } :
          i \in { i \in 1..Len(scan_java_files) : scan_java_files[i].readable } }

KeyAt(d) == QualifiedName(scan_java_files[d[1]], ClassesOf(scan_java_files[d[1]])[d[2]])
RecordAt(d) == ClassInfo(ClassesOf(scan_java_files[d[1]])[d[2]])
VisitedLater(e, d) == e[1] > d[1] \/ (e[1] = d[1] /\ e[2] > d[2])

\* the scan loop is at a file whose extraction raises
ScanAtFailingFile ==
  /\ scan_pc = "loop"
  /\ scan_i <= Len(scan_java_files)
  /\ ~scan_java_files[scan_i].readable

\* C11: a file whose extraction raises is skipped: the step leaves the map as
\* it was and moves to the next file; when the scan returns every file has
\* been visited and the map holds exactly the keys declared in the files that
\* did not fail, each with a record extracted from one of those files.
C11_ScanFailureIsolated ==
  /\ [][ ScanAtFailingFile
           => /\ hierarchy_map' = hierarchy_map
              /\ scan_pc' = "loop"
              /\ scan_i' = scan_i + 1 ]_vars
  /\ [](scan_pc = "returned"
          => /\ scan_i = Len(scan_java_files) + 1
             /\ DictKeys(hierarchy_map) = { KeyAt(d) : d \in DeclaredAt }
             /\ \A n \in 1..Len(hierarchy_map) :
                  \E d \in DeclaredAt : /\ KeyAt(d) = hierarchy_map[n].key
                                        /\ RecordAt(d) = hierarchy_map[n].value)

C11_Witness ==
  /\ scan_pc = "returned"
  /\ Len(scan_java_files) >= 2
  /\ ~scan_java_files[1].readable
  /\ scan_java_files[2].readable
  /\ hierarchy_map # << >>

OwnPublicMethodNames(class_node) ==
  LET own == SelectSeq(class_node.children,
                       LAMBDA n : n.type = "method_declaration" /\ "public" \in Range(n.modifiers))
  IN [i \in 1..Len(own) |-> own[i].name]

\* C22: the method list of a class record holds the names of the class's own
\* public methods in declaration order, each distinct name once, overloads
\* included.
C22_MethodNamesOnce ==
  scan_pc = "returned"
    => \A d \in DeclaredAt :
         (\A e \in DeclaredAt : KeyAt(e) = KeyAt(d) => ~VisitedLater(e, d))
           => LET class_node == ClassesOf(scan_java_files[d[1]])[d[2]]
                  methods == DictGet(hierarchy_map, KeyAt(d)).methods
              IN /\ methods = FirstOccurrences(OwnPublicMethodNames(class_node), 1, {})
                 /\ \A i, j \in 1..Len(methods) : i # j => methods[i] # methods[j]

\* C13 as stated: no step of the scan creates or modifies a file.
C13_ScanHasNoStorageEffect ==
  [][ (scan_pc \in {"idle", "loop"}) => (hierarchy_json' = hierarchy_json) ]_vars

\* C13 amended: the scan writes the map itself: the hierarchy file changes only
\* in the last step of the scan call, after every file has been visited, and
\* then holds exactly the returned map; a scan that raises writes nothing.
C13_ScanSavesMap ==
  [][ /\ hierarchy_json' # hierarchy_json
        => /\ scan_pc = "loop" /\ scan_pc' = "returned"
           /\ scan_i > Len(scan_java_files)
      /\ (scan_pc # "returned" /\ scan_pc' = "returned")
        => hierarchy_json' = << hierarchy_map' >>
      /\ scan_pc' = "raised" => hierarchy_json' = hierarchy_json ]_vars

C13_Witness ==
  /\ scan_pc = "returned"
  /\ hierarchy_map # << >>
  /\ hierarchy_json = << hierarchy_map >>

\* the ancestors a parent name resolves to, nearest first: anc[1] is the entry
\* of the parent, anc[n+1] the entry of anc[n]'s recorded parent; << >> from the
\* first ancestor that is not in the map or follows one with no parent
AncestorChain(parent_class, hmap) ==
  LET anc[n \in 1..(Len(hmap) + 1)] ==
        IF n = 1 THEN LookupParent(parent_class, hmap)
        ELSE IF anc[n - 1] = << >> THEN << >>
        ELSE IF anc[n - 1][1].parent = NoParent THEN << >>
        ELSE LookupParent(anc[n - 1][1].parent, hmap)
  IN anc

AcyclicChain(parent_class, hmap) ==
  AncestorChain(parent_class, hmap)[Len(hmap) + 1] = << >>

RECURSIVE MethodsAlong(_, _)
MethodsAlong(chain, n) ==
  IF n > Len(chain) THEN << >>
  ELSE (IF chain[n] = << >> THEN << >> ELSE chain[n][1].methods) \o MethodsAlong(chain, n + 1)

AllProjectChunks ==
  UNION { Range(project_chunks[i].chunks) : i \in 1..Len(project_chunks) }

\* C14: the inherited-method list in the context of every chunk of a class with
\* a parent is the concatenation of the recorded methods of the ancestors,
\* nearest first, along the whole (acyclic) chain.
C14_InheritedMethods ==
  scan_pc = "parsed"
    => \A c \in AllProjectChunks :
         (/\ c.class_context.extends # NoParent
          /\ AcyclicChain(c.class_context.extends, parser_hierarchy_map))
           => c.class_context.inherited
                = MethodsAlong(AncestorChain(c.class_context.extends, parser_hierarchy_map), 1)

C14_Witness ==
  /\ scan_pc = "parsed"
  /\ \E c \in AllProjectChunks : /\ c.class_context.class = "Puppy"
                                 /\ c.class_context.inherited = << "bark", "eat", "sleep" >>

\* C15: a second run over the same files in another visit order gives the same
\* hierarchy map and the same chunks (class context and id) for every file.
C15_OrderIndependent ==
  (scan_pc = "parsed" /\ previous_run # << >>)
    => /\ Range(hierarchy_map) = Range(previous_run[1].hierarchy_map)
       /\ Range(project_chunks) = Range(previous_run[1].project_chunks)

\* ------------------------------------------------- parse_file
\* the class declarations of the parsed file
AllClassNodes == ClassesOf(source_file)

\* every method and constructor declaration of the parsed file, each once
AllDeclarations ==
  find_nodes_by_type(source_file, "method_declaration")
    \o find_nodes_by_type(source_file, "constructor_declaration")

IsDeclaration(node) == node.type \in {"method_declaration", "constructor_declaration"}

\* class context of the class that declares a member
DeclaringContext(class_node) ==
  format_class_context(source_file.package, class_node.name, class_node.fields,
                       class_node.superclass, parser_hierarchy_map)

\* normalized signature of a member of a class
SignatureOf(class_node, node) ==
  extract_method_info(node, DeclaringContext(class_node), class_node.name,
                      node.type = "constructor_declaration").method_signature

ChunkNameOf(node) ==
  IF node.type = "constructor_declaration" THEN "<Constructor>" ELSE node.name

\* some returned chunk has the name and the body of the declaration
HasChunk(node) ==
  \E n \in 1..Len(results) : /\ results[n].method_name = ChunkNameOf(node)
                             /\ results[n].method_body = node.body

\* public methods of a class named name, with a body of statement lines
OverloadsOf(class_node, name) ==
  { k \in 1..Len(class_node.children) :
      /\ class_node.children[k].type = "method_declaration"
      /\ "public" \in Range(class_node.children[k].modifiers)
      /\ class_node.children[k].name = name
      /\ class_node.children[k].body.block
      /\ class_node.children[k].body.lines # << >>
      /\ \A n \in 1..Len(class_node.children[k].body.lines) :
           class_node.children[k].body.lines[n] = << "stmt" >> }

\* C16: two public methods of a class with the same name and different
\* parameter lists get different normalized signatures, and the chunks of the
\* class with that name carry as many different ids as there are different
\* parameter lists.
C16_OverloadsDistinct ==
  parse_pc = "returned"
    => \A c \in 1..Len(AllClassNodes) :
         LET class_node == AllClassNodes[c]
             kids == class_node.children
         IN \A i \in 1..Len(kids) :
              LET same == OverloadsOf(class_node, kids[i].name)
              IN /\ \A j, k \in same :
                      kids[j].params # kids[k].params
                        => SignatureOf(class_node, kids[j]) # SignatureOf(class_node, kids[k])
                 /\ Cardinality({ results[n].id : n \in { n \in 1..Len(results) :
                                     /\ results[n].class_context = DeclaringContext(class_node)
                                     /\ results[n].method_name = kids[i].name } })
                      >= Cardinality({ kids[j].params : j \in same })

\* every body of the file is a block of statement lines (possibly none)
PlainBodies ==
  \A i \in 1..Len(AllDeclarations) :
    /\ AllDeclarations[i].body.block
    /\ \A n \in 1..Len(AllDeclarations[i].body.lines) :
         AllDeclarations[i].body.lines[n] = << "stmt" >>

Indexable(node) ==
  /\ "public" \in Range(node.modifiers)
  /\ node.body.block
  /\ HasStatement(node.body.lines)

\* C17: parse_file returns one chunk per public method or constructor with a
\* non-empty body, and no more (read on files whose bodies are plain statement
\* blocks, nested class declarations included).
C17_OneChunkPerDeclaration ==
  (parse_pc = "returned" /\ PlainBodies)
    => /\ \A i \in 1..Len(AllDeclarations) :
            Indexable(AllDeclarations[i]) => HasChunk(AllDeclarations[i])
       /\ Len(results)
            = Cardinality({ i \in 1..Len(AllDeclarations) : Indexable(AllDeclarations[i]) })

\* << c, k >>: member k of class c is a method or constructor declaration
DeclarationsAt ==
  UNION { { << c, k >> : k \in { k \in 1..Len(AllClassNodes[c].children) :
                                   IsDeclaration(AllClassNodes[c].children[k]) } } :
          c \in 1..Len(AllClassNodes) }

ContextAndSignatureAt(p) ==
  << DeclaringContext(AllClassNodes[p[1]]),
     SignatureOf(AllClassNodes[p[1]], AllClassNodes[p[1]].children[p[2]]) >>

\* C18: when the declarations of the file are pairwise distinct in (declaring
\* class, signature), the returned chunks carry pairwise distinct ids.
C18_DistinctIds ==
  (/\ parse_pc = "returned"
   /\ \A p, q \in DeclarationsAt : p # q => ContextAndSignatureAt(p) # ContextAndSignatureAt(q))
    => \A m, n \in 1..Len(results) : m # n => results[m].id # results[n].id

\* C19: a public method or constructor whose body holds only blank and comment
\* lines yields no chunk; a public method whose body holds a statement yields one.
C19_EmptyBodiesDropped ==
  parse_pc = "returned"
    => \A i \in 1..Len(AllDeclarations) :
         LET node == AllDeclarations[i]
         IN ("public" \in Range(node.modifiers) /\ node.body.block)
              => /\ ~HasStatement(node.body.lines) => ~HasChunk(node)
                 /\ (node.type = "method_declaration" /\ HasStatement(node.body.lines))
                      => HasChunk(node)

\* C20: a public method declaration without a body yields no chunk.
C20_BodilessDropped ==
  parse_pc = "returned"
    => \A i \in 1..Len(AllDeclarations) :
         LET node == AllDeclarations[i]
         IN ("public" \in Range(node.modifiers) /\ ~node.body.block)
              => ~\E n \in 1..Len(results) : /\ results[n].method_name = ChunkNameOf(node)
                                            /\ ~results[n].method_body.block

\* ------------------------------------------------- dependency types
\* the declared type of a parameter without generic arguments and array
\* suffixes: its leading name
RECURSIVE LeadingName(_, _)
LeadingName(text, i) ==
  IF i > Len(text) \/ text[i] \in { "<", "[]" }
    THEN << >>
    ELSE << text[i] >> \o LeadingName(text, i + 1)

\* C21: the dependency types of a chunk are the declared types of all its
\* parameters, stripped of generic arguments and array suffixes, without the
\* names of the exclusion set and without repetitions, in first-occurrence order
C21_DependencyTypes ==
  (parse_pc = "returned" /\ source_file \in DependencyFiles) =>
    \A i \in 1..Len(results) :
      LET params == source_file.children[1].children[1].params
          types == [k \in 1..Len(params) |-> LeadingName(params[k].param_type, 1)]
      IN results[i].dependency_types = FirstOccurrences(types, 1, primitives_and_common)

\* ------------------------------------------------- the two buffers of Pass 2
\* a step of the loop that takes up the next file
FileStep == ctx = "loop" /\ ParseStep

\* flush_buffer is called / returns to the file loop
FlushCalled == pc # "await_enrich" /\ pc' = "await_enrich"
FlushReturnsInLoop == ctx = "loop" /\ pc = "await_enrich" /\ pc' # "await_enrich"

\* what flush_buffer returns: the result of enrich_batch, [] when it raised
FlushResult == IF epc = "returned" THEN enrich_result ELSE << >>

WriteThreshold == batch_size * WriteMultiple

C24_AccumulationThreshold ==
  /\ [][  /\ FlushReturnsInLoop
               => (pc' = "add_batch" <=> Len(all_enriched_chunks') >= WriteThreshold)
          /\ (ctx = "loop" /\ pc # "add_batch" /\ pc' = "add_batch")
               => /\ write_batch' = all_enriched_chunks'
                  /\ Len(write_batch') >= WriteThreshold
          /\ (ctx = "loop" /\ pc = "add_batch")
               => /\ Len(add_batch_calls') = Len(add_batch_calls) + 1
                  /\ LastCall(add_batch_calls').chunks = all_enriched_chunks
          /\ (ctx = "loop" /\ pc = "write_try")
               => /\ Len(add_batch_calls') = Len(add_batch_calls)
                  /\ (pc' = "loop" => all_enriched_chunks' = << >>) ]_vars
  /\ [](pc = "loop" => Len(all_enriched_chunks) < WriteThreshold)

C24_Witness ==
  /\ pc = "loop"
  /\ all_enriched_chunks = << >>
  /\ Len(add_batch_calls) = 1
  /\ add_batch_calls[1].outcome = "ok"
  /\ Len(add_batch_calls[1].chunks) >= WriteThreshold
  /\ Len(store) = Len(add_batch_calls[1].chunks)

\* ------------------------------------------------- stored metadata
\* the source path a stored record carries, if it carries one
StoredPath(record) ==
  IF record.file_path = "unknown" THEN << >> ELSE << record.file_path >>

\* C25: every record in the store carries the file path that the loop attached
\* to its chunk after parsing.
C25_StoredFilePath ==
  \A i \in 1..Len(store) : StoredPath(store[i]) = << store[i].chunk.file_path >>

\* ------------------------------------------------- traces of a chunk
\* chunk c was part of an add_batch call that succeeded
Persisted(c) ==
  \E i \in 1..Len(add_batch_calls) :
    add_batch_calls[i].outcome = "ok" /\ c \in Range(add_batch_calls[i].chunks)

\* the error log has a line that names the file of chunk c
LoggedFile(c) == \E i \in 1..Len(error_log) : error_log[i].file = c.file_path

\* C26: at Done every chunk the parser returned was part of a successful
\* storage write or its file is named in the error log.
C26_NoChunkLostSilently ==
  pc = "done" => \A c \in Range(parsed) : Persisted(c) \/ LoggedFile(c)

\* ------------------------------------------------- order of enrich_batch
\* place of chunk c in the list handed to enrich_batch
PlaceInInput(c) == CHOOSE i \in 1..Len(tasks) : tasks[i] = c

\* C27: the list enrich_batch returns holds the successfully enriched chunks in
\* the relative order they had in the input list, also when the calls finished
\* in another order.
C27_InputOrderKept ==
  epc = "returned"
    => /\ \A i \in 1..Len(enrich_result) : enrich_result[i] \in Range(tasks)
       /\ \A i, j \in 1..Len(enrich_result) :
            i < j => PlaceInInput(enrich_result[i]) < PlaceInInput(enrich_result[j])

C27_Witness ==
  /\ epc = "returned"
  /\ overtaken
  /\ Len(enrich_result) >= 2
  /\ Len(enrich_result) < Len(tasks)

\* ------------------------------------------------- inherited-method resolution
\* C28: on a project whose extends graph is acyclic every call of the
\* inherited-method resolution returns its list.
C28_ResolutionTerminates ==
  (resolve_pc = "frame") ~> (resolve_pc = "returned")

\* ------------------------------------------------- the file counters
FilesCounted == stats.files_processed + stats.files_failed

\* C29: every iterated file is counted once, as processed or as failed: the
\* two counters add up to the number of files iterated so far and to
\* total_files at Done; a file step raises exactly one of them by one, and no
\* other step (enrichment, storage, report) changes either.
C29_FilesCountedOnce ==
  /\ [][ IF ParseStep
           THEN \/ /\ visited'[Len(visited')] = "ok"
                   /\ stats'.files_processed = stats.files_processed + 1
                   /\ stats'.files_failed = stats.files_failed
                \/ /\ visited'[Len(visited')] = "failed"
                   /\ stats'.files_failed = stats.files_failed + 1
                   /\ stats'.files_processed = stats.files_processed
           ELSE /\ stats'.files_processed = stats.files_processed
                /\ stats'.files_failed = stats.files_failed ]_vars
  /\ [](FilesCounted = Len(visited))
  /\ [](pc = "done" => (FilesCounted = stats.total_files /\ stats.total_files = java_files))

C29_Witness ==
  /\ pc = "done"
  /\ stats.files_processed >= 1
  /\ stats.files_failed >= 1
  /\ \E i \in 1..Len(error_log) : error_log[i].kind \in StorageErrors \cup { "enrich" }

\* C30: a run that appended at least one line to the error log ends with
\* files_failed > 0 and a report that points to the error log.
C30_ErrorLogReported ==
  (pc = "done" /\ error_log # << >>)
    => (stats.files_failed > 0 /\ report[1].see_error_log)

====
